---- MODULE Spec2Model ----
(***************************************************************************)
(* A model of lastpassreportingcli: the command line front end             *)
(* (get_arguments, authenticate_lastpass, main), the rollup aggregation    *)
(* (get_folder_metrics), the per-folder metrics (FolderMetrics), the       *)
(* report renderer (create_report) and the CSV exporter                    *)
(* (export_secret_state).                                                  *)
(*                                                                         *)
(* Time stamps are abstracted to the integers 0..MaxTime.  Percentages     *)
(* are carried in hundredths of a percent (10000 is 100.00), computed      *)
(* with the IEEE-754 double arithmetic Python's float performs: a double   *)
(* is a fixed-point number in limbs of LimbBits bits holding at most       *)
(* MantissaBits significant bits.                                          *)
(***************************************************************************)
EXTENDS Integers, Sequences, FiniteSets, TLC

VARIABLES
    pc,             \* where the run stands
    args,           \* the parsed command line (what main reads after logging is set up)
    loggerConfig,   \* args.logger_config until setup_logging has read it
    creds,          \* username, password and mfa of authenticate_lastpass
    authError,      \* the exception the last login attempt raised
    attempts,       \* login attempts made by authenticate_lastpass
    prompts,        \* input dialogs shown by authenticate_lastpass, and the last one
    called,         \* the functions invoked so far
    folderMetrics,  \* main's folder metrics
    csvFile,        \* the exported file
    stdout,         \* what create_report printed
    exitCode,       \* the process exit status, -1 while running
    exitMsg,        \* what ended the process
    inp,            \* the module whose main runs, or the arguments of a function
                    \* evaluated on its own
    out             \* the result of a function evaluated on its own

vars == <<pc, args, loggerConfig, creds, authError, attempts, prompts, called,
          folderMetrics, csvFile, stdout, exitCode, exitMsg, inp, out>>

(***************************************************************************)
(* Bounds of the model.                                                    *)
(***************************************************************************)
MaxTime == 2
MaxSecrets == 2
MaxVaultSecrets == 1
MaxWhitelist == 1
MaxAttempts == 3
MaxFolderSize == 160
LimbBits == 16
IntLimbs == 1
FracLimbs == 4
MaxIds == 2
MaxReportFolders == 2

None == "None"

Times == 0 .. MaxTime

\* main's cutoff_date, datetime.fromisoformat('2022-09-22'), on the model's time axis.
CutoffDate == 1

Range(s) == {s[i] : i \in 1 .. Len(s)}

\* All sequences over S of length at most n.
SeqsUpTo(S, n) == UNION {[1 .. k -> S] : k \in 0 .. n}

(***************************************************************************)
(* Secret ids and their validation (library/validators.py).  A string is   *)
(* a sequence of one-character strings.                                    *)
(***************************************************************************)
MinIdLength == 18
MaxIdLength == 19

Digits == {"0", "1", "2", "3", "4", "5", "6", "7", "8", "9"}
Whitespace == {" "}
Signs == {"+", "-"}

\* The string of length len that starts with prefix and goes on with the digit fill.
MkId(prefix, fill, len) ==
    [i \in 1 .. len |-> IF i <= Len(prefix) THEN prefix[i] ELSE fill]

\* Python's str.strip() as int() applies it before parsing.
Strip(str) ==
    LET keep == {i \in 1 .. Len(str) : str[i] \notin Whitespace}
    IN  IF keep = {} THEN <<>>
        ELSE LET a == CHOOSE i \in keep : \A j \in keep : i <= j
                 b == CHOOSE i \in keep : \A j \in keep : i >= j
             IN  SubSeq(str, a, b)

\* Whether int(str) returns: surrounding whitespace, an optional sign, then
\* digits, single underscores allowed between digits.
IntParses(str) ==
    LET t == Strip(str)
        body == IF Len(t) > 0 /\ t[1] \in Signs THEN Tail(t) ELSE t
    IN  /\ Len(body) > 0
        /\ \A i \in 1 .. Len(body) : body[i] \in Digits \cup {"_"}
        /\ body[1] \in Digits /\ body[Len(body)] \in Digits
        /\ \A i \in 1 .. Len(body) - 1 : ~(body[i] = "_" /\ body[i + 1] = "_")

is_valid_secret_id(secret_id) ==
    IF ~IntParses(secret_id)
    THEN FALSE
    ELSE MinIdLength <= Len(secret_id) /\ Len(secret_id) <= MaxIdLength

RECURSIVE ProblematicIds(_, _)
ProblematicIds(secret_ids, i) ==
    IF i > Len(secret_ids) THEN <<>>
    ELSE (IF is_valid_secret_id(secret_ids[i]) THEN <<>> ELSE <<secret_ids[i]>>)
             \o ProblematicIds(secret_ids, i + 1)

\* The validation if every id passed.
validate_secret_ids_accepting(secret_ids) == [are_valid |-> TRUE, ids |-> secret_ids]

validate_secret_ids(secret_ids) ==
    LET problematic_ids == ProblematicIds(secret_ids, 1)
    IN  IF problematic_ids # <<>>
        THEN [are_valid |-> FALSE, ids |-> problematic_ids]
        ELSE [are_valid |-> TRUE, ids |-> secret_ids]

\* The ids the vault gives its secrets, by position in the vault.
SecretId(i) == MkId(<<>>, CHOOSE d \in Digits : d = ToString(i % 10), MinIdLength)

\* The whitelist entries the command line may carry.
WhitelistEntries ==
    {SecretId(1), SecretId(2), <<"a", "b", "c">>, MkId(<<>>, "1", MinIdLength - 1)}

(***************************************************************************)
(* IEEE-754 double arithmetic.  A double is a fixed-point number held as   *)
(* NLimbs limbs of LimbBits bits, most significant first, IntLimbs of them *)
(* before the binary point; bit 1 is the most significant bit.             *)
(***************************************************************************)
MantissaBits == 53

Base == 2 ^ LimbBits

NLimbs == IntLimbs + FracLimbs

Width == NLimbs * LimbBits

\* The integer v (0 <= v < Base) as a fixed-point number.
FromInt(v) == [j \in 1 .. NLimbs |-> IF j = IntLimbs THEN v ELSE 0]

\* The integer part of x.
RECURSIVE IntPart(_, _, _)
IntPart(x, j, acc) ==
    IF j > IntLimbs THEN acc ELSE IntPart(x, j + 1, acc * Base + x[j])

\* Bit idx of x.
Bit(x, idx) ==
    (x[(idx - 1) \div LimbBits + 1]
        \div 2 ^ (LimbBits - 1 - ((idx - 1) % LimbBits))) % 2

\* The index of the leading 1 bit, 0 when there is none.
LeadPos(x) ==
    IF \A j \in 1 .. NLimbs : x[j] = 0
    THEN 0
    ELSE LET j == CHOOSE k \in 1 .. NLimbs :
                      x[k] # 0 /\ \A m \in 1 .. k - 1 : x[m] = 0
             o == CHOOSE k \in 0 .. LimbBits - 1 :
                      x[j] \div 2 ^ (LimbBits - 1 - k) = 1
         IN  (j - 1) * LimbBits + o + 1

\* x with every bit after bit last cleared.
Truncate(x, last) ==
    [j \in 1 .. NLimbs |->
        LET keep == last - (j - 1) * LimbBits
        IN  IF keep >= LimbBits THEN x[j]
            ELSE IF keep <= 0 THEN 0
            ELSE (x[j] \div 2 ^ (LimbBits - keep)) * 2 ^ (LimbBits - keep)]

\* x plus amount at limb j, the carry moving up.
RECURSIVE AddAt(_, _, _)
AddAt(x, j, amount) ==
    IF j = 0
    THEN x
    ELSE IF x[j] + amount < Base
         THEN [x EXCEPT ![j] = x[j] + amount]
         ELSE AddAt([x EXCEPT ![j] = x[j] + amount - Base], j - 1, 1)

\* x plus one unit in the place of bit pos.
AddUlp(x, pos) ==
    AddAt(x, (pos - 1) \div LimbBits + 1,
          2 ^ (LimbBits - 1 - ((pos - 1) % LimbBits)))

\* Round to nearest, ties to even, keeping MantissaBits significant bits;
\* sticky says that the exact value has bits beyond those of x.
RoundToDouble(x, sticky) ==
    LET p == LeadPos(x)
        last == p + MantissaBits - 1
    IN  IF p = 0 \/ last >= Width
        THEN x
        ELSE LET rest == sticky \/ x # Truncate(x, last + 1)
                 up == Bit(x, last + 1) = 1 /\ (rest \/ Bit(x, last) = 1)
             IN  IF up THEN AddUlp(Truncate(x, last), last)
                 ELSE Truncate(x, last)

\* The exact product m * x, m a small integer.
RECURSIVE MulSmall(_, _, _, _)
MulSmall(x, m, j, carry) ==
    IF j = 0
    THEN x
    ELSE LET t == m * x[j] + carry
         IN  MulSmall([x EXCEPT ![j] = t % Base], m, j - 1, t \div Base)

\* The exact difference a - b, a >= b.
RECURSIVE SubLimbs(_, _, _, _)
SubLimbs(a, b, j, borrow) ==
    IF j = 0
    THEN a
    ELSE LET t == a[j] - b[j] - borrow
         IN  SubLimbs([a EXCEPT ![j] = IF t < 0 THEN t + Base ELSE t], b, j - 1,
                      IF t < 0 THEN 1 ELSE 0)

\* The expansion of r / n (r < n) over the fraction limbs, and the remainder left.
RECURSIVE DivLimbs(_, _, _, _)
DivLimbs(r, n, j, x) ==
    IF j > NLimbs
    THEN [x |-> x, sticky |-> r # 0]
    ELSE DivLimbs((r * Base) % n, n, j + 1, [x EXCEPT ![j] = (r * Base) \div n])

\* The float a / b of two integers, 0 <= a <= b, b > 0.
FloatDiv(a, b) ==
    LET q == DivLimbs(a % b, b, IntLimbs + 1, FromInt(a \div b))
    IN  RoundToDouble(q.x, q.sticky)

\* The float x * 100.
FloatTimes100(x) == RoundToDouble(MulSmall(x, 100, NLimbs, 0), FALSE)

\* The float 100 - x, x <= 100.
FloatHundredMinus(x) == RoundToDouble(SubLimbs(FromInt(100), x, NLimbs, 0), FALSE)

\* round(x, 2) in hundredths: the exact value of x to two decimals, ties to even.
Round2(x) ==
    LET h == MulSmall(x, 100, NLimbs, 0)
        whole == IntPart(h, 1, 0)
        half == IntLimbs * LimbBits + 1
        up == Bit(h, half) = 1 /\ (h # Truncate(h, half) \/ whole % 2 = 1)
    IN  IF up THEN whole + 1 ELSE whole

(***************************************************************************)
(* The vault as lastpasslib hands it over: folders, each with its secrets. *)
(* A Folder is [name, path, is_personal, secrets]; a secret carries the    *)
(* attributes this program reads.                                          *)
(***************************************************************************)
Folder(name, path, is_personal) ==
    [name |-> name, path |-> path, is_personal |-> is_personal, secrets |-> <<>>]

full_path(folder) == folder.path

is_in_root(folder) == Len(folder.path) = 1

add_secret(folder, secret) == [folder EXCEPT !.secrets = Append(@, secret)]

add_secrets(folder, secrets) == [folder EXCEPT !.secrets = @ \o secrets]

\* The folders a vault may hold: the personal root, a personal folder, a
\* shared folder and a folder nested in it.
CandidateFolders ==
    << Folder("\\", <<"\\">>, TRUE),
       Folder("p", <<"p">>, TRUE),
       Folder("A", <<"A">>, FALSE),
       Folder("sub", <<"A", "sub">>, FALSE) >>

RECURSIVE SubList(_, _, _)
SubList(list, keep, i) ==
    IF i > Len(list) THEN <<>>
    ELSE (IF i \in keep THEN <<list[i]>> ELSE <<>>) \o SubList(list, keep, i + 1)

FolderLists == {SubList(CandidateFolders, keep, 1) : keep \in SUBSET (1 .. Len(CandidateFolders))}

SecretKinds ==
    { [type |-> "Password", password |-> "pw"],
      [type |-> "Password", password |-> ""],
      [type |-> "SecureNote", password |-> ""] }

\* What varies between secrets: the four time stamps and the kind.
AllShapes ==
    [last_modified_datetime : Times, secret_updated_datetime : Times,
     last_touch_datetime : Times, last_password_change_datetime : Times,
     kind : SecretKinds]

\* The shapes as FolderMetrics tells them apart: it reads last_modified_datetime
\* and secret_updated_datetime only, the other two time stamps follow them here.
FullShapes ==
    {sh \in AllShapes : /\ sh.last_touch_datetime = sh.last_modified_datetime
                        /\ sh.last_password_change_datetime = sh.secret_updated_datetime}

\* The shapes as export_secret_state tells them apart: modified after the cutoff,
\* the other three time stamps before the cutoff or at it.
ExportShapes ==
    {sh \in AllShapes :
        /\ sh.last_modified_datetime = CutoffDate + 1
        /\ sh.last_touch_datetime \in {CutoffDate, CutoffDate + 1}
        /\ sh.secret_updated_datetime \in {CutoffDate - 1, CutoffDate}
        /\ sh.last_password_change_datetime \in {CutoffDate - 1, CutoffDate}
        /\ sh.kind.type = "Password" => sh.kind.password = "pw"}

\* Shapes that differ in the last-modified time stamp only.
PlainShapes ==
    {sh \in FullShapes : sh.secret_updated_datetime = 0 /\ sh.kind.password = "pw"}

\* Secret number i of the vault, of the given shape, kept in the given folder.
MkSecret(i, shape, folder) ==
    [id |-> SecretId(i),
     shared_folder |-> IF folder.is_personal THEN None ELSE folder.path[1],
     last_modified_datetime |-> shape.last_modified_datetime,
     secret_updated_datetime |-> shape.secret_updated_datetime,
     type |-> shape.kind.type,
     password |-> shape.kind.password,
     name |-> <<"secret", i>>,
     url |-> <<"url", i>>,
     has_username |-> shape.kind.type = "Password",
     username |-> <<"user", i>>,
     last_touch_datetime |-> shape.last_touch_datetime,
     last_password_change_datetime |-> shape.last_password_change_datetime]

\* The secrets that placement pl (a sequence of <<folder index, shape>>) puts
\* in folder number j.
RECURSIVE SecretsAt(_, _, _, _)
SecretsAt(folder, j, pl, i) ==
    IF i > Len(pl) THEN <<>>
    ELSE (IF pl[i][1] = j THEN <<MkSecret(i, pl[i][2], folder)>> ELSE <<>>)
             \o SecretsAt(folder, j, pl, i + 1)

BuildVault(fs, pl) ==
    [folders |-> [j \in 1 .. Len(fs) |->
                     [fs[j] EXCEPT !.secrets = SecretsAt(fs[j], j, pl, 1)]]]

\* The vaults of at most n secrets whose shapes are drawn from shapes.
Vaults(n, shapes) ==
    UNION { {BuildVault(fs, pl) : pl \in SeqsUpTo((1 .. Len(fs)) \X shapes, n)} :
            fs \in FolderLists }

\* Lastpass.get_secrets(): every secret of every folder.
RECURSIVE SecretsOf(_, _)
SecretsOf(folders, j) ==
    IF j > Len(folders) THEN <<>>
    ELSE folders[j].secrets \o SecretsOf(folders, j + 1)

get_secrets(vault) == SecretsOf(vault.folders, 1)

(***************************************************************************)
(* FolderMetrics (library/datamodels.py).  fm is a record                  *)
(* [folder, cutoff_date, warning_whitelist].                               *)
(***************************************************************************)
FolderMetrics(folder, cutoff_date, warning_whitelist) ==
    [folder |-> folder, cutoff_date |-> cutoff_date,
     warning_whitelist |-> warning_whitelist]

number_of_secrets(fm) == Len(fm.folder.secrets)

\* The count with the cutoff itself counted as updated.
number_of_updated_secrets_at_cutoff(fm) ==
    Cardinality({i \in 1 .. Len(fm.folder.secrets) :
                    fm.folder.secrets[i].last_modified_datetime >= fm.cutoff_date})

number_of_updated_secrets(fm) ==
    Cardinality({i \in 1 .. Len(fm.folder.secrets) :
                    fm.folder.secrets[i].last_modified_datetime > fm.cutoff_date})

number_of_secrets_to_update(fm) ==
    number_of_secrets(fm) - number_of_updated_secrets(fm)

percentage_done(fm) ==
    IF number_of_secrets(fm) # 0
    THEN LET percentage ==
                 Round2(FloatTimes100(FloatDiv(number_of_updated_secrets(fm),
                                               number_of_secrets(fm))))
         IN  IF percentage < 10000 THEN percentage ELSE 10000
    ELSE 10000

percentage_left(fm) ==
    IF number_of_secrets(fm) # 0
    THEN Round2(FloatHundredMinus(
                    FloatTimes100(FloatDiv(number_of_updated_secrets(fm),
                                           number_of_secrets(fm)))))
    ELSE 0

\* The check with the cutoff itself counted as modified.
check_if_is_secret_in_warning_at_cutoff(secret, cutoff_date, warning_whitelist) ==
    /\ secret.last_modified_datetime # secret.secret_updated_datetime
    /\ secret.secret_updated_datetime < cutoff_date
    /\ secret.last_modified_datetime >= cutoff_date
    /\ secret.type = "Password" /\ secret.password # ""
    /\ secret.id \notin Range(warning_whitelist)

\* The check without the last-modified time stamp's condition.
check_if_is_secret_in_warning_unmodified(secret, cutoff_date, warning_whitelist) ==
    /\ secret.last_modified_datetime # secret.secret_updated_datetime
    /\ secret.secret_updated_datetime < cutoff_date
    /\ secret.type = "Password" /\ secret.password # ""
    /\ secret.id \notin Range(warning_whitelist)

\* The check without the whitelist.
check_if_is_secret_in_warning_unlisted(secret, cutoff_date, warning_whitelist) ==
    /\ secret.last_modified_datetime # secret.secret_updated_datetime
    /\ secret.secret_updated_datetime < cutoff_date
    /\ secret.last_modified_datetime > cutoff_date
    /\ secret.type = "Password" /\ secret.password # ""

\* The check as FolderMetrics makes it.
check_if_is_secret_in_warning(secret, cutoff_date, warning_whitelist) ==
    /\ secret.last_modified_datetime # secret.secret_updated_datetime
    /\ secret.secret_updated_datetime < cutoff_date
    /\ secret.last_modified_datetime > cutoff_date
    /\ secret.type = "Password" /\ secret.password # ""
    /\ secret.id \notin Range(warning_whitelist)

is_secret_in_warning(fm, secret) ==
    check_if_is_secret_in_warning(secret, fm.cutoff_date, fm.warning_whitelist)

RECURSIVE WarningsFrom(_, _)
WarningsFrom(fm, i) ==
    IF i > Len(fm.folder.secrets)
    THEN <<>>
    ELSE (IF is_secret_in_warning(fm, fm.folder.secrets[i])
          THEN <<[folder_name |-> fm.folder.name, secret |-> fm.folder.secrets[i]]>>
          ELSE <<>>) \o WarningsFrom(fm, i + 1)

warnings(fm) == WarningsFrom(fm, 1)

number_of_warnings(fm) == Len(warnings(fm))

(***************************************************************************)
(* get_folder_metrics (lastpassreportingcli.py): the rollup aggregation.   *)
(* A dict is a sequence of <<key, value>> pairs in insertion order.        *)
(***************************************************************************)
DictHas(d, key) == \E i \in 1 .. Len(d) : d[i][1] = key

DictIndex(d, key) == CHOOSE i \in 1 .. Len(d) : d[i][1] = key

DictGet(d, key) == d[DictIndex(d, key)][2]

DictSet(d, key, value) ==
    IF DictHas(d, key)
    THEN [d EXCEPT ![DictIndex(d, key)] = <<key, value>>]
    ELSE Append(d, <<key, value>>)

\* {folder.name: Folder(folder.name, folder.path, is_personal=...)
\*  for folder in folders if folder.is_in_root}
RECURSIVE AggregateRootFolders(_, _, _)
AggregateRootFolders(folders, i, d) ==
    IF i > Len(folders) THEN d
    ELSE AggregateRootFolders(folders, i + 1,
             IF is_in_root(folders[i])
             THEN DictSet(d, folders[i].name,
                          Folder(folders[i].name, folders[i].path, folders[i].is_personal))
             ELSE d)

RECURSIVE SharedSecrets(_, _)
SharedSecrets(secrets, i) ==
    IF i > Len(secrets) THEN <<>>
    ELSE (IF secrets[i].shared_folder # None THEN <<secrets[i]>> ELSE <<>>)
             \o SharedSecrets(secrets, i + 1)

\* The rollup if the personal secrets were not filtered from the input.
PersonalSecretsUnfiltered(secrets, i) == secrets

RECURSIVE PersonalSecrets(_, _)
PersonalSecrets(secrets, i) ==
    IF i > Len(secrets) THEN <<>>
    ELSE (IF secrets[i].shared_folder = None THEN <<secrets[i]>> ELSE <<>>)
             \o PersonalSecrets(secrets, i + 1)

\* The loop if a shared secret without a root folder were passed over.
RECURSIVE AddSharedSecretsSkipping(_, _, _)
AddSharedSecretsSkipping(d, shared, i) ==
    IF i > Len(shared) THEN [ok |-> TRUE, dict |-> d]
    ELSE IF ~DictHas(d, shared[i].shared_folder)
         THEN AddSharedSecretsSkipping(d, shared, i + 1)
         ELSE AddSharedSecretsSkipping(
                  DictSet(d, shared[i].shared_folder,
                          add_secret(DictGet(d, shared[i].shared_folder), shared[i])),
                  shared, i + 1)

\* for secret in shared_secrets: aggregate_root_folders[shared_name].add_secret(secret)
RECURSIVE AddSharedSecrets(_, _, _)
AddSharedSecrets(d, shared, i) ==
    IF i > Len(shared) THEN [ok |-> TRUE, dict |-> d]
    ELSE IF ~DictHas(d, shared[i].shared_folder)
         THEN [ok |-> FALSE, dict |-> d]
         ELSE AddSharedSecrets(
                  DictSet(d, shared[i].shared_folder,
                          add_secret(DictGet(d, shared[i].shared_folder), shared[i])),
                  shared, i + 1)

\* The result: [ok |-> TRUE, metrics |-> the FolderMetrics], or the KeyError.
get_folder_metrics(secrets, folders, cutoff_date, warning_whitelist) ==
    LET shared_secrets == SharedSecrets(secrets, 1)
        personal_secrets == PersonalSecrets(secrets, 1)
        aggregate_root_folders == AggregateRootFolders(folders, 1, <<>>)
        withShared == AddSharedSecrets(aggregate_root_folders, shared_secrets, 1)
    IN  IF ~withShared.ok \/ ~DictHas(withShared.dict, "\\")
        THEN [ok |-> FALSE, error |-> "KeyError", metrics |-> <<>>]
        ELSE LET filled == DictSet(withShared.dict, "\\",
                                   add_secrets(DictGet(withShared.dict, "\\"),
                                               personal_secrets))
             IN  [ok |-> TRUE, error |-> None,
                  metrics |-> [i \in 1 .. Len(filled) |->
                                  FolderMetrics(filled[i][2], cutoff_date,
                                                warning_whitelist)]]

(***************************************************************************)
(* create_report and final_report_data (lastpassreportingcli.py), with     *)
(* PresentationFolder (library/datamodels.py).                             *)
(***************************************************************************)
ERROR_HIGH_PERCENTAGE == 99
ERROR_LOW_PERCENTAGE == 70

\* The order of the folder names as Python compares strings.
NameRank(name) ==
    CASE name = "A" -> 1
      [] name = "Z" -> 2
      [] name = "\\" -> 3
      [] name = "p" -> 4
      [] name = "sub" -> 5

sort_criteria(fm, sort_on) ==
    IF sort_on = "name" THEN NameRank(fm.folder.name) ELSE percentage_done(fm)

\* list.sort(key, reverse): stable in both directions.
RECURSIVE InsertSorted(_, _, _, _, _)
InsertSorted(sorted, fm, sort_on, reverse_sort, i) ==
    IF i > Len(sorted)
    THEN Append(sorted, fm)
    ELSE IF (IF reverse_sort
             THEN sort_criteria(sorted[i], sort_on) < sort_criteria(fm, sort_on)
             ELSE sort_criteria(sorted[i], sort_on) > sort_criteria(fm, sort_on))
         THEN SubSeq(sorted, 1, i - 1) \o <<fm>> \o SubSeq(sorted, i, Len(sorted))
         ELSE InsertSorted(sorted, fm, sort_on, reverse_sort, i + 1)

RECURSIVE SortMetrics(_, _, _, _, _)
SortMetrics(list, sort_on, reverse_sort, i, sorted) ==
    IF i > Len(list) THEN sorted
    ELSE SortMetrics(list, sort_on, reverse_sort, i + 1,
                     InsertSorted(sorted, list[i], sort_on, reverse_sort, 1))

RECURSIVE MetricsOfTable(_, _, _)
MetricsOfTable(folder_metrics, table, i) ==
    IF i > Len(folder_metrics) THEN <<>>
    ELSE (IF (IF table = "personal" THEN folder_metrics[i].folder.is_personal
              ELSE ~folder_metrics[i].folder.is_personal)
          THEN <<folder_metrics[i]>> ELSE <<>>)
             \o MetricsOfTable(folder_metrics, table, i + 1)

percentage_color(fm) ==
    IF percentage_done(fm) = 10000 THEN "autogreen"
    ELSE IF /\ ERROR_LOW_PERCENTAGE * 100 <= percentage_done(fm)
            /\ percentage_done(fm) <= ERROR_HIGH_PERCENTAGE * 100
         THEN "autoyellow" ELSE "autored"

warning_color(fm) == IF number_of_warnings(fm) # 0 THEN "autoyellow" ELSE "autogreen"

presentation_row(fm) ==
    [name |-> full_path(fm.folder),
     name_color |-> IF is_in_root(fm.folder) THEN "blue" ELSE None,
     percentage_done |-> percentage_done(fm),
     percentage_color |-> percentage_color(fm),
     updated |-> number_of_updated_secrets(fm),
     total |-> number_of_secrets(fm),
     left |-> number_of_secrets_to_update(fm),
     warnings |-> number_of_warnings(fm),
     warning_color |-> warning_color(fm)]

RECURSIVE SumOver(_, _, _)
SumOver(list, updated_only, i) ==
    IF i > Len(list) THEN 0
    ELSE (IF updated_only THEN number_of_updated_secrets(list[i])
          ELSE number_of_secrets(list[i])) + SumOver(list, updated_only, i + 1)

\* The summary line, its percentages as the format 0.2f prints them; the
\* division raises ZeroDivisionError when there is no secret.
final_report_data(folder_metrics) ==
    LET total_secrets == SumOver(folder_metrics, FALSE, 1)
        total_updated_secrets == SumOver(folder_metrics, TRUE, 1)
    IN  IF total_secrets = 0
        THEN [ok |-> FALSE, error |-> "ZeroDivisionError"]
        ELSE LET percent_done == FloatTimes100(FloatDiv(total_updated_secrets, total_secrets))
             IN  [ok |-> TRUE, error |-> None,
                  total_secrets |-> total_secrets,
                  folders |-> Len(folder_metrics),
                  total_updated_secrets |-> total_updated_secrets,
                  percent_done |-> Round2(percent_done),
                  total_left_to_update |-> total_secrets - total_updated_secrets,
                  percent_left |-> Round2(FloatHundredMinus(percent_done))]

ReportTables(report_on) ==
    IF report_on = "all" THEN <<"personal", "shared">> ELSE <<report_on>>

\* The report if the summary line always took every folder metric there is.
create_report_summarizing_all(folder_metrics, report_on, sort_on, reverse_sort) ==
    LET tables == ReportTables(report_on)
        metrics_data(t) == SortMetrics(MetricsOfTable(folder_metrics, tables[t], 1),
                                       sort_on, reverse_sort, 1, <<>>)
        output == [t \in 1 .. Len(tables) |->
                      [title |-> tables[t],
                       rows |-> [i \in 1 .. Len(metrics_data(t)) |->
                                    presentation_row(metrics_data(t)[i])]]]
        summary == final_report_data(folder_metrics)
    IN  [ok |-> summary.ok, error |-> summary.error,
         tables |-> output, summary |-> summary,
         summarized |-> folder_metrics]

\* What create_report prints and how it ends: the tables, then the summary line
\* unless computing it raises.
create_report(folder_metrics, report_on, sort_on, reverse_sort) ==
    LET tables == ReportTables(report_on)
        metrics_data(t) == SortMetrics(MetricsOfTable(folder_metrics, tables[t], 1),
                                       sort_on, reverse_sort, 1, <<>>)
        output == [t \in 1 .. Len(tables) |->
                      [title |-> tables[t],
                       rows |-> [i \in 1 .. Len(metrics_data(t)) |->
                                    presentation_row(metrics_data(t)[i])]]]
        metrics == IF report_on = "all" THEN folder_metrics
                   ELSE metrics_data(Len(tables))
        summary == final_report_data(metrics)
    IN  [ok |-> summary.ok, error |-> summary.error,
         tables |-> output, summary |-> summary,
         summarized |-> metrics]

(***************************************************************************)
(* export_secret_state (lastpassreportingcli.py): the rows of the CSV.     *)
(***************************************************************************)
CsvHeaders ==
    <<"full_path", "id", "name", "url", "username", "last_modified", "last_touched",
      "last_password_modified", "status", "warning">>

\* The row if the last-modified and the last-password-change time stamps were
\* written in each other's place.
ExportRowSwapped(folder, secret, cutoff_date, warning_whitelist) ==
    << full_path(folder),
       secret.id,
       secret.name,
       secret.url,
       IF secret.has_username THEN secret.username ELSE secret.type,
       secret.last_password_change_datetime,
       secret.last_touch_datetime,
       secret.last_modified_datetime,
       IF secret.secret_updated_datetime < cutoff_date THEN "NOT_OK" ELSE "OK",
       check_if_is_secret_in_warning(secret, cutoff_date, warning_whitelist) >>

ExportRow(folder, secret, cutoff_date, warning_whitelist) ==
    << full_path(folder),
       secret.id,
       secret.name,
       secret.url,
       IF secret.has_username THEN secret.username ELSE secret.type,
       secret.last_modified_datetime,
       secret.last_touch_datetime,
       secret.last_password_change_datetime,
       IF secret.secret_updated_datetime < cutoff_date THEN "NOT_OK" ELSE "OK",
       check_if_is_secret_in_warning(secret, cutoff_date, warning_whitelist) >>

RECURSIVE ExportRows(_, _, _, _)
ExportRows(folders, j, cutoff_date, warning_whitelist) ==
    IF j > Len(folders) THEN <<>>
    ELSE [i \in 1 .. Len(folders[j].secrets) |->
             ExportRow(folders[j], folders[j].secrets[i], cutoff_date, warning_whitelist)]
         \o ExportRows(folders, j + 1, cutoff_date, warning_whitelist)

\* csv.writer.writerow: every field as str() gives it, the time stamps (fields 6
\* to 8) and the warning (field 10) among them.
writerow(row) ==
    [k \in 1 .. Len(row) |->
        CASE k = 10 -> IF row[k] THEN "True" ELSE "False"
          [] k \in {6, 7, 8} -> ToString(row[k])
          [] OTHER -> row[k]]

\* The file after the with block: the headers, then the rows.
WrittenFile(rows) == <<CsvHeaders>> \o [i \in 1 .. Len(rows) |-> writerow(rows[i])]

(***************************************************************************)
(* The run of main (lastpassreportingcli.py, lastpass_report_cli.py).      *)
(***************************************************************************)
NoArgs ==
    [subcommand |-> None, report_on |-> None, sort_on |-> None, reverse_sort |-> FALSE,
     filename |-> None, warning_whitelist |-> <<>>, parsed |-> FALSE]

NoCreds == [username |-> None, password |-> None, mfa |-> None]

NoPrompts == [count |-> 0, last |-> None]

NoFile == [name |-> None, rows |-> <<>>, closed |-> FALSE]

NoOutput ==
    [ok |-> FALSE, error |-> None, tables |-> <<>>,
     summary |-> [ok |-> FALSE, error |-> None], summarized |-> <<>>]

REPORT_ON_CHOICES == {"all", "personal", "shared"}
SORT_ON_CHOICES == {"name", "percentage"}

\* What the command line and the environment may give for the subcommand's options.
SubcommandArgs ==
    {[subcommand |-> None, report_on |-> None, sort_on |-> None,
      reverse_sort |-> FALSE, filename |-> None]}
    \cup {[subcommand |-> "export", report_on |-> None, sort_on |-> None,
           reverse_sort |-> FALSE, filename |-> "out.csv"]}
    \cup [subcommand : {"report"}, report_on : REPORT_ON_CHOICES \cup {"bogus"},
          sort_on : SORT_ON_CHOICES \cup {"bogus"}, reverse_sort : BOOLEAN,
          filename : {None}]

CommandLines ==
    [sub : SubcommandArgs,
     warning_whitelist : SeqsUpTo(WhitelistEntries, MaxWhitelist),
     username : {None, "a"}, password : {None, "a"}, mfa : {None, "a"},
     logger_config : {"", "valid.json", "invalid.json", "missing.json"},
     well_formed : BOOLEAN]

\* hasattr(args, 'report_on') and so on: the report subparser ran.
HasReportArgs(cl) == cl.sub.subcommand = "report"

\* hasattr(args, 'filename'): the export subparser ran.
HasFilename(a) == a.subcommand = "export"

\* get_arguments: the parser.error it ends with, None when it returns args.
ArgumentError(cl) ==
    IF ~cl.well_formed THEN "usage"
    ELSE IF ~validate_secret_ids(cl.warning_whitelist).are_valid THEN "not valid ids"
    ELSE IF ~(HasReportArgs(cl) \/ HasFilename(cl.sub)) THEN "specify report or export"
    ELSE IF HasReportArgs(cl) /\ cl.sub.report_on \notin REPORT_ON_CHOICES
         THEN "invalid report_on"
    ELSE IF HasReportArgs(cl) /\ cl.sub.sort_on \notin SORT_ON_CHOICES
         THEN "invalid sort_on"
    ELSE None

\* The exit status Python gives SystemExit(code): code is [kind, value].
ExitStatus(code) ==
    CASE code.kind = "none" -> 0
      [] code.kind = "int" -> code.value
      [] code.kind = "bool" -> IF code.value THEN 1 ELSE 0
      [] code.kind = "str" -> 1

\* The process ends: SystemExit(code), or an exception nobody catches.
Exit(code, msg) ==
    /\ pc' = "exited"
    /\ exitCode' = ExitStatus(code)
    /\ exitMsg' = msg

Uncaught(exception) == Exit([kind |-> "int", value |-> 1], exception)

\* The two modules whose main runs the program; inp holds the one that was started.
EntryPoints == {"lastpassreportingcli", "lastpass_report_cli"}

Init ==
    /\ pc = "start"
    /\ args = NoArgs
    /\ loggerConfig = None
    /\ creds = NoCreds
    /\ authError = None
    /\ attempts = 0
    /\ prompts = NoPrompts
    /\ called = {}
    /\ folderMetrics = <<>>
    /\ csvFile = NoFile
    /\ stdout = NoOutput
    /\ exitCode = -1
    /\ exitMsg = None
    /\ inp \in EntryPoints
    /\ out = None

\* args = get_arguments(): parse, validate, parser.error (exit status 2) or return.
GetArguments ==
    /\ pc = "start"
    /\ \E cl \in CommandLines :
          /\ args' = [subcommand |-> cl.sub.subcommand, report_on |-> cl.sub.report_on,
                      sort_on |-> cl.sub.sort_on, reverse_sort |-> cl.sub.reverse_sort,
                      filename |-> cl.sub.filename,
                      warning_whitelist |-> cl.warning_whitelist, parsed |-> TRUE]
          /\ IF ArgumentError(cl) # None
             THEN /\ Exit([kind |-> "int", value |-> 2], ArgumentError(cl))
                  /\ UNCHANGED <<loggerConfig, creds>>
             ELSE /\ pc' = "setup_logging"
                  /\ loggerConfig' = cl.logger_config
                  /\ creds' = [username |-> cl.username, password |-> cl.password,
                               mfa |-> cl.mfa]
                  /\ UNCHANGED <<exitCode, exitMsg>>
    /\ called' = called \cup {"get_arguments"}
    /\ UNCHANGED <<authError, attempts, prompts, folderMetrics, csvFile, stdout, inp, out>>

\* setup_logging(args.log_level, args.logger_config)
SetupLogging ==
    /\ pc = "setup_logging"
    /\ called' = called \cup {"setup_logging"}
    /\ loggerConfig' = None
    /\ CASE loggerConfig = "invalid.json" ->
                Exit([kind |-> "int", value |-> 1], "not valid json")
         [] loggerConfig = "missing.json" -> Uncaught("FileNotFoundError")
         [] OTHER -> pc' = "auth_username" /\ UNCHANGED <<exitCode, exitMsg>>
    /\ UNCHANGED <<args, creds, authError, attempts, prompts, folderMetrics, csvFile,
                   stdout, inp, out>>

(***************************************************************************)
(* authenticate_lastpass and get_user_input_or_quit.                       *)
(***************************************************************************)
\* What the input dialog may return: None when cancelled, or the text typed.
UserInputs == {None, "", "b"}

CancelMessage(variable_name) ==
    "User canceled or provided an empty value for " \o variable_name

\* variable = get_user_input_or_quit(variable_name): the dialog, then SystemExit
\* on no input, else the credential is replaced.
GetUserInputOrQuit(field, variable_name, next) ==
    \E user_input \in UserInputs :
        /\ prompts' = [count |-> prompts.count + 1, last |-> variable_name]
        /\ IF user_input = None \/ user_input = ""
           THEN /\ Exit([kind |-> "str", value |-> CancelMessage(variable_name)],
                        CancelMessage(variable_name))
                /\ UNCHANGED creds
           ELSE /\ creds' = [creds EXCEPT ![field] = user_input]
                /\ pc' = next
                /\ UNCHANGED <<exitCode, exitMsg>>

\* variable = variable or get_user_input_or_quit(variable_name)
InitialCredential(at, field, variable_name, next) ==
    /\ pc = at
    /\ IF creds[field] \notin {None, ""}
       THEN pc' = next /\ UNCHANGED <<creds, prompts, exitCode, exitMsg>>
       ELSE GetUserInputOrQuit(field, variable_name, next)
    /\ called' = called \cup {"authenticate_lastpass"}
    /\ UNCHANGED <<args, loggerConfig, authError, attempts, folderMetrics, csvFile,
                   stdout, inp, out>>

PromptUsername == InitialCredential("auth_username", "username", "username", "auth_password")

PromptPassword == InitialCredential("auth_password", "password", "password", "auth_mfa")

PromptMfa == InitialCredential("auth_mfa", "mfa", "MFA", "auth_login")

\* What Lastpass(username, password, mfa) may do: return, or raise.
LoginOutcomes ==
    {"ok", "UnknownUsername", "InvalidPassword", "InvalidMfa", "MfaRequired", "Exception"}

\* try: lastpass = Lastpass(username, password, mfa); authenticated = True
Login ==
    /\ pc = "auth_login"
    /\ attempts < MaxAttempts
    /\ called' = called \cup {"Lastpass"}
    /\ \E outcome \in LoginOutcomes :
          IF outcome = "ok"
          THEN /\ pc' = "get_secrets"
               /\ authError' = None
               /\ creds' = NoCreds
               /\ attempts' = 0
               /\ prompts' = NoPrompts
          ELSE /\ pc' = "auth_handle"
               /\ authError' = outcome
               /\ attempts' = attempts + 1
               /\ UNCHANGED <<creds, prompts>>
    /\ UNCHANGED <<args, loggerConfig, folderMetrics, csvFile, stdout, exitCode, exitMsg,
                   inp, out>>

\* The except clauses if a wrong password asked the username again.
ExceptClauseAskingUsername(error) ==
    CASE error \in {"UnknownUsername", "InvalidPassword"} ->
             [field |-> "username", variable_name |-> "username"]
      [] error \in {"InvalidMfa", "MfaRequired"} -> [field |-> "mfa", variable_name |-> "MFA"]
      [] OTHER -> [field |-> None, variable_name |-> None]

\* The except clauses if an exception of any other kind asked the MFA again.
ExceptClauseRetryingAll(error) ==
    CASE error = "UnknownUsername" -> [field |-> "username", variable_name |-> "username"]
      [] error = "InvalidPassword" -> [field |-> "password", variable_name |-> "password"]
      [] OTHER -> [field |-> "mfa", variable_name |-> "MFA"]

\* The except clause that catches the error: the credential it asks again,
\* None for the clause that gives up.
ExceptClause(error) ==
    CASE error = "UnknownUsername" -> [field |-> "username", variable_name |-> "username"]
      [] error = "InvalidPassword" -> [field |-> "password", variable_name |-> "password"]
      [] error \in {"InvalidMfa", "MfaRequired"} -> [field |-> "mfa", variable_name |-> "MFA"]
      [] OTHER -> [field |-> None, variable_name |-> None]

\* The except clauses of the login attempt.
HandleAuthError ==
    /\ pc = "auth_handle"
    /\ IF ExceptClause(authError).field # None
       THEN GetUserInputOrQuit(ExceptClause(authError).field,
                               ExceptClause(authError).variable_name, "auth_login")
       ELSE /\ Exit([kind |-> "str", value |-> "Unable to authenticate to backend."],
                    "Unable to authenticate to backend.")
            /\ UNCHANGED <<creds, prompts>>
    /\ UNCHANGED <<args, loggerConfig, authError, attempts, called, folderMetrics,
                   csvFile, stdout, inp, out>>

(***************************************************************************)
(* main after authentication.                                              *)
(***************************************************************************)
\* The vaults the run may find.
RunVaults == Vaults(MaxVaultSecrets, PlainShapes)

\* The branch of main if the export were not taken.
AfterGetSecretsReporting(a) == "report"

\* if hasattr(args, 'filename'): return export_secret_state(...)
AfterGetSecrets(a) == IF HasFilename(a) THEN "export" ELSE "report"

\* _ = lastpass.get_secrets(), then the branch on hasattr(args, 'filename').
GetSecrets ==
    /\ pc = "get_secrets"
    /\ called' = called \cup {"get_secrets"}
    /\ pc' = AfterGetSecrets(args)
    /\ UNCHANGED <<args, loggerConfig, creds, authError, attempts, prompts, folderMetrics,
                   csvFile, stdout, exitCode, exitMsg, inp, out>>

\* return export_secret_state(lastpass, args.filename, cutoff_date, args.warning_whitelist)
ExportSecretState ==
    /\ pc = "export"
    /\ called' = called \cup {"export_secret_state"}
    /\ \E vault \in RunVaults, opens \in BOOLEAN :
          IF opens
          THEN /\ csvFile' = [name |-> args.filename,
                              rows |-> WrittenFile(ExportRows(vault.folders, 1, CutoffDate,
                                                              args.warning_whitelist)),
                              closed |-> TRUE]
               /\ Exit([kind |-> "str", value |-> "Exported secret data to"],
                       "Exported secret data to")
          ELSE /\ UNCHANGED csvFile
               /\ Uncaught("OSError")
    /\ UNCHANGED <<args, loggerConfig, creds, authError, attempts, prompts, folderMetrics,
                   stdout, inp, out>>

\* all_folder_metrics = get_folder_metrics(lastpass.get_secrets(), lastpass.folders, ...)
\* lastpass_report_cli.main passes args.details, which get_arguments never sets:
\* the AttributeError is raised while the arguments of the call are evaluated.
GetFolderMetrics ==
    /\ pc = "report"
    /\ IF inp = "lastpass_report_cli"
       THEN /\ Uncaught("AttributeError")
            /\ UNCHANGED <<called, folderMetrics>>
       ELSE /\ called' = called \cup {"get_folder_metrics"}
            /\ \E vault \in RunVaults :
                  LET result == get_folder_metrics(get_secrets(vault), vault.folders,
                                                   CutoffDate, args.warning_whitelist)
                  IN  IF result.ok
                      THEN /\ folderMetrics' = result.metrics
                           /\ pc' = "create_report"
                           /\ UNCHANGED <<exitCode, exitMsg>>
                      ELSE /\ UNCHANGED folderMetrics
                           /\ Uncaught(result.error)
    /\ UNCHANGED <<args, loggerConfig, creds, authError, attempts, prompts, csvFile,
                   stdout, inp, out>>

\* return create_report(...), and raise SystemExit(main()) with what it returned.
CreateReport ==
    /\ pc = "create_report"
    /\ called' = called \cup {"create_report"}
    /\ stdout' = create_report(folderMetrics, args.report_on, args.sort_on,
                               args.reverse_sort)
    /\ IF stdout'.ok
       THEN Exit([kind |-> "bool", value |-> TRUE], "main returned")
       ELSE Uncaught(stdout'.error)
    /\ UNCHANGED <<args, loggerConfig, creds, authError, attempts, prompts, folderMetrics,
                   csvFile, inp, out>>

Next ==
    \/ GetArguments
    \/ SetupLogging
    \/ PromptUsername
    \/ PromptPassword
    \/ PromptMfa
    \/ Login
    \/ HandleAuthError
    \/ GetSecrets
    \/ ExportSecretState
    \/ GetFolderMetrics
    \/ CreateReport

Spec == Init /\ [][Next]_vars

(***************************************************************************)
(* The functions evaluated on their own: inp holds the arguments, out the  *)
(* result.                                                                 *)
(***************************************************************************)
Idle ==
    /\ args = NoArgs
    /\ loggerConfig = None
    /\ creds = NoCreds
    /\ authError = None
    /\ attempts = 0
    /\ prompts = NoPrompts
    /\ called = {}
    /\ folderMetrics = <<>>
    /\ csvFile = NoFile
    /\ stdout = NoOutput
    /\ exitCode = -1
    /\ exitMsg = None

IdleUnchanged ==
    UNCHANGED <<args, loggerConfig, creds, authError, attempts, prompts, called,
                folderMetrics, csvFile, stdout, exitCode, exitMsg>>

\* Every derived field of a FolderMetrics, and the file export writes for its folder.
MetricsView(fm) ==
    [number_of_secrets |-> number_of_secrets(fm),
     number_of_updated_secrets |-> number_of_updated_secrets(fm),
     number_of_secrets_to_update |-> number_of_secrets_to_update(fm),
     percentage_done |-> percentage_done(fm),
     percentage_left |-> percentage_left(fm),
     in_warning |-> [i \in 1 .. Len(fm.folder.secrets) |->
                        is_secret_in_warning(fm, fm.folder.secrets[i])],
     warnings |-> warnings(fm),
     number_of_warnings |-> number_of_warnings(fm),
     rows |-> WrittenFile(ExportRows(<<fm.folder>>, 1, fm.cutoff_date,
                                     fm.warning_whitelist))]

\* A folder filled secret by secret, its metrics read after each.
InitFolder ==
    /\ Idle
    /\ pc = "folder"
    /\ inp \in {FolderMetrics(CandidateFolders[3], CutoffDate, w) :
                   w \in SeqsUpTo({SecretId(1)}, MaxWhitelist)}
    /\ out = MetricsView(inp)

AddSecret ==
    /\ pc = "folder"
    /\ Len(inp.folder.secrets) < MaxSecrets
    /\ \E shape \in FullShapes :
          inp' = [inp EXCEPT !.folder =
                     add_secret(@, MkSecret(Len(inp.folder.secrets) + 1, shape, @))]
    /\ out' = MetricsView(inp')
    /\ UNCHANGED pc
    /\ IdleUnchanged

NextFolder == AddSecret

SpecFolder == InitFolder /\ [][NextFolder]_vars

\* The folder with n secrets of which the first u were modified after the cutoff.
FilledFolder(folder, n, u) ==
    [folder EXCEPT !.secrets =
        [i \in 1 .. n |->
            MkSecret(i,
                     [last_modified_datetime |->
                          IF i <= u THEN CutoffDate + 1 ELSE CutoffDate,
                      secret_updated_datetime |-> 0,
                      last_touch_datetime |-> CutoffDate,
                      last_password_change_datetime |-> 0,
                      kind |-> [type |-> "Password", password |-> "pw"]],
                     folder)]]

FolderOfSize(n, u) == FilledFolder(CandidateFolders[1], n, u)

InitPercentages ==
    /\ Idle
    /\ pc = "sizes"
    /\ inp \in {[n |-> n, u |-> u] : n \in 0 .. MaxFolderSize, u \in 0 .. MaxFolderSize}
    /\ inp.u <= inp.n
    /\ out = None

EvalPercentages ==
    /\ pc = "sizes"
    /\ pc' = "percentages"
    /\ out' = [percentage_done |->
                   percentage_done(FolderMetrics(FolderOfSize(inp.n, inp.u), CutoffDate, <<>>)),
               percentage_left |->
                   percentage_left(FolderMetrics(FolderOfSize(inp.n, inp.u), CutoffDate, <<>>))]
    /\ UNCHANGED inp
    /\ IdleUnchanged

NextPercentages == EvalPercentages

SpecPercentages == InitPercentages /\ [][NextPercentages]_vars

\* The rollup of a vault.
InitRollup ==
    /\ Idle
    /\ pc = "vault"
    /\ inp \in Vaults(MaxSecrets, PlainShapes)
    /\ out = None

EvalRollup ==
    /\ pc = "vault"
    /\ pc' = "rolled"
    /\ out' = get_folder_metrics(get_secrets(inp), inp.folders, CutoffDate, <<>>)
    /\ UNCHANGED inp
    /\ IdleUnchanged

NextRollup == EvalRollup

SpecRollup == InitRollup /\ [][NextRollup]_vars

\* The export of a vault filled secret by secret: inp is the vault, out the file.
ExportOf(vault) == WrittenFile(ExportRows(vault.folders, 1, CutoffDate, <<>>))

InitExport ==
    /\ Idle
    /\ pc = "vault_export"
    /\ inp = [folders |-> CandidateFolders]
    /\ out = ExportOf(inp)

StoreSecret ==
    /\ pc = "vault_export"
    /\ Len(get_secrets(inp)) < MaxSecrets
    /\ \E j \in 1 .. Len(inp.folders), shape \in ExportShapes :
          inp' = [inp EXCEPT !.folders[j] =
                     add_secret(@, MkSecret(Len(get_secrets(inp)) + 1, shape, @))]
    /\ out' = ExportOf(inp')
    /\ UNCHANGED pc
    /\ IdleUnchanged

NextExport == StoreSecret

SpecExport == InitExport /\ [][NextExport]_vars

\* The report of a list of folder metrics.  The folders create_report may be
\* given: the candidate folders and a second shared root.
ReportFolders == CandidateFolders \o <<Folder("Z", <<"Z">>, FALSE)>>

\* What a folder of the list holds: <<secrets, updated secrets>>.
FolderContents == {<<0, 0>>, <<1, 0>>, <<2, 1>>}

\* The lists of metrics of different folders, in any order.
MetricsLists ==
    {[k \in 1 .. Len(sq) |->
         FolderMetrics(FilledFolder(ReportFolders[sq[k][1]], sq[k][2][1], sq[k][2][2]),
                       CutoffDate, <<>>)] :
       sq \in {q \in SeqsUpTo((1 .. Len(ReportFolders)) \X FolderContents,
                              MaxReportFolders) :
                 \A a, b \in 1 .. Len(q) : a # b => q[a][1] # q[b][1]}}

InitReport ==
    /\ Idle
    /\ pc = "metrics"
    /\ inp \in [folder_metrics : MetricsLists, report_on : REPORT_ON_CHOICES,
                 sort_on : SORT_ON_CHOICES, reverse_sort : BOOLEAN]
    /\ out = None

EvalReport ==
    /\ pc = "metrics"
    /\ pc' = "reported"
    /\ out' = create_report(inp.folder_metrics, inp.report_on, inp.sort_on,
                            inp.reverse_sort)
    /\ UNCHANGED inp
    /\ IdleUnchanged

NextReport == EvalReport

SpecReport == InitReport /\ [][NextReport]_vars

\* The validation of a whitelist.
IdCandidates ==
    {SecretId(1),
     MkId(<<>>, "2", MaxIdLength),
     MkId(<<>>, "1", MinIdLength - 1),
     MkId(<<>>, "1", MaxIdLength + 1),
     <<"a", "b", "c">>,
     MkId(<<"+">>, "1", MinIdLength),
     MkId(<<"-">>, "1", MaxIdLength),
     MkId(<<" ">>, "1", MinIdLength),
     MkId(<<"1", "_">>, "1", MinIdLength)}

InitValidate ==
    /\ Idle
    /\ pc = "ids"
    /\ inp \in SeqsUpTo(IdCandidates, MaxIds)
    /\ out = None

EvalValidate ==
    /\ pc = "ids"
    /\ pc' = "validated"
    /\ out' = validate_secret_ids(inp)
    /\ UNCHANGED inp
    /\ IdleUnchanged

NextValidate == EvalValidate

SpecValidate == InitValidate /\ [][NextValidate]_vars

(***************************************************************************)
(* Properties of the whitelist validation, checked under SpecValidate.     *)
(***************************************************************************)
PurelyNumeric(secret_id) ==
    /\ Len(secret_id) \in {18, 19}
    /\ \A i \in 1 .. Len(secret_id) : secret_id[i] \in Digits

RECURSIVE NotPurelyNumeric(_, _)
NotPurelyNumeric(secret_ids, i) ==
    IF i > Len(secret_ids) THEN <<>>
    ELSE (IF PurelyNumeric(secret_ids[i]) THEN <<>> ELSE <<secret_ids[i]>>)
             \o NotPurelyNumeric(secret_ids, i + 1)

\* C11: validate_secret_ids accepts the whitelist iff every entry consists of 18 or
\* 19 digits and nothing else; otherwise it returns invalid with exactly the
\* entries that do not, in input order.
AcceptsOnlyPurelyNumericIds ==
    pc = "validated" =>
        /\ out.are_valid <=> \A i \in 1 .. Len(inp) : PurelyNumeric(inp[i])
        /\ ~out.are_valid => out.ids = NotPurelyNumeric(inp, 1)

(***************************************************************************)
(* Properties of the rollup aggregation, checked under SpecRollup.         *)
(***************************************************************************)
\* How often the secret occurs in the folders of the returned metrics.
Occurrences(metrics, secret) ==
    Cardinality({ki \in UNION {{<<k, i>> : i \in 1 .. Len(metrics[k].folder.secrets)} :
                               k \in 1 .. Len(metrics)} :
                    metrics[ki[1]].folder.secrets[ki[2]] = secret})

RECURSIVE TotalNumberOfSecrets(_, _)
TotalNumberOfSecrets(metrics, k) ==
    IF k > Len(metrics) THEN 0
    ELSE number_of_secrets(metrics[k]) + TotalNumberOfSecrets(metrics, k + 1)

\* C1: whenever get_folder_metrics returns, every input secret is in exactly one
\* aggregate folder, once, and the number_of_secrets of the returned
\* FolderMetrics add up to the number of input secrets.
RollupPartitionsSecrets ==
    (pc = "rolled" /\ out.ok) =>
        /\ \A i \in 1 .. Len(get_secrets(inp)) :
              Occurrences(out.metrics, get_secrets(inp)[i]) = 1
        /\ TotalNumberOfSecrets(out.metrics, 1) = Len(get_secrets(inp))

\* A rollup that returned for a vault holding a shared and a personal secret.
RollupOfSharedAndPersonal ==
    /\ pc = "rolled"
    /\ out.ok
    /\ \E i, j \in 1 .. Len(get_secrets(inp)) :
          /\ get_secrets(inp)[i].shared_folder # None
          /\ get_secrets(inp)[j].shared_folder = None
    /\ Len(out.metrics) >= 2

\* The names of the root-level folders of the input.
RootNames == {inp.folders[j].name : j \in {k \in 1 .. Len(inp.folders) :
                                               Len(inp.folders[k].path) = 1}}

SharedNamesExist ==
    \A i \in 1 .. Len(get_secrets(inp)) :
        get_secrets(inp)[i].shared_folder # None =>
            get_secrets(inp)[i].shared_folder \in RootNames

RECURSIVE PersonalOf(_, _)
PersonalOf(secrets, i) ==
    IF i > Len(secrets) THEN <<>>
    ELSE (IF secrets[i].shared_folder = None THEN <<secrets[i]>> ELSE <<>>)
             \o PersonalOf(secrets, i + 1)

\* C15: for every input whose shared secrets all name an existing root folder the
\* rollup returns an aggregate folder for each root-level folder and exactly one
\* folder keyed "\\" that holds exactly the personal secrets, also when the input
\* has no root folder of that name and when there are no personal secrets.
RollupAlwaysHasPersonalFolder ==
    (pc = "rolled" /\ SharedNamesExist) =>
        /\ out.ok
        /\ \A name \in RootNames :
               \E k \in 1 .. Len(out.metrics) : out.metrics[k].folder.name = name
        /\ Cardinality({k \in 1 .. Len(out.metrics) :
                            out.metrics[k].folder.name = "\\"}) = 1
        /\ \A k \in 1 .. Len(out.metrics) :
               out.metrics[k].folder.name = "\\" =>
                   out.metrics[k].folder.secrets = PersonalOf(get_secrets(inp), 1)

\* C16: whenever a shared secret names a shared folder that is no root-level folder
\* of the input, the rollup ends with the lookup error and returns no metrics:
\* no secret is dropped or put into another folder.
MissingSharedRootRaises ==
    (pc = "rolled" /\ ~SharedNamesExist) =>
        /\ ~out.ok
        /\ out.error = "KeyError"
        /\ out.metrics = <<>>

\* A rollup that failed on a vault with the personal root, a personal secret in it
\* and a shared secret whose root folder is missing.
RollupFailedOnMissingSharedRoot ==
    /\ pc = "rolled"
    /\ ~out.ok
    /\ "\\" \in RootNames
    /\ "A" \notin RootNames
    /\ Len(get_secrets(inp)) = 2
    /\ \E i, j \in 1 .. 2 :
          /\ get_secrets(inp)[i].shared_folder = "A"
          /\ get_secrets(inp)[j].shared_folder = None

(***************************************************************************)
(* Properties of the percentages, checked under SpecPercentages.           *)
(***************************************************************************)
\* C2: percentage_done and percentage_left lie in [0, 100] and add up to 100.00
\* (the values are in hundredths).
PercentagesSumTo100 ==
    pc = "percentages" =>
        /\ out.percentage_done \in 0 .. 10000
        /\ out.percentage_left \in 0 .. 10000
        /\ out.percentage_done + out.percentage_left = 10000

(***************************************************************************)
(* Properties of FolderMetrics, checked under SpecFolder.                  *)
(***************************************************************************)
FolderSecrets == inp.folder.secrets

\* Conditions (a), (b), (d) and (e) of the warning.
WarningConditionsButModified(secret) ==
    /\ secret.last_modified_datetime # secret.secret_updated_datetime
    /\ secret.secret_updated_datetime < inp.cutoff_date
    /\ secret.type = "Password"
    /\ secret.password # ""
    /\ \A k \in 1 .. Len(inp.warning_whitelist) : inp.warning_whitelist[k] # secret.id

\* C3 (as stated): is_secret_in_warning is true iff (a), (b), (d), (e) hold and
\* (c) the last-modified time stamp is at or after the cutoff.
WarningIffModifiedAtOrAfterCutoff ==
    \A i \in 1 .. Len(FolderSecrets) :
        out.in_warning[i] <=>
            /\ WarningConditionsButModified(FolderSecrets[i])
            /\ FolderSecrets[i].last_modified_datetime >= inp.cutoff_date

\* C3 (amended): is_secret_in_warning is true iff (a), (b), (d), (e) hold and
\* (c) the last-modified time stamp is strictly after the cutoff.
WarningIffModifiedAfterCutoff ==
    \A i \in 1 .. Len(FolderSecrets) :
        out.in_warning[i] <=>
            /\ WarningConditionsButModified(FolderSecrets[i])
            /\ FolderSecrets[i].last_modified_datetime > inp.cutoff_date

\* A folder with a secret in warning and one modified exactly at the cutoff that
\* meets the other four conditions and is not in warning.
WarningAndModifiedAtCutoff ==
    \E i, j \in 1 .. Len(FolderSecrets) :
        /\ out.in_warning[i]
        /\ WarningConditionsButModified(FolderSecrets[j])
        /\ FolderSecrets[j].last_modified_datetime = inp.cutoff_date
        /\ ~out.in_warning[j]

Whitelisted(secret) ==
    \E k \in 1 .. Len(inp.warning_whitelist) : inp.warning_whitelist[k] = secret.id

\* C4: a secret whose id is in the whitelist is never in warning, whatever its time
\* stamps, type and password: its flag is false, it is not in warnings, and the
\* warning field of its exported row is false.
WhitelistedNeverInWarning ==
    \A i \in 1 .. Len(FolderSecrets) :
        Whitelisted(FolderSecrets[i]) =>
            /\ ~out.in_warning[i]
            /\ \A k \in 1 .. Len(out.warnings) : out.warnings[k].secret # FolderSecrets[i]
            /\ out.rows[i + 1][2] = FolderSecrets[i].id
            /\ out.rows[i + 1][10] = "False"

\* A whitelisted secret that meets every other condition of the warning, next to
\* one that is in warning.
WhitelistedMeetsOtherConditions ==
    \E i, j \in 1 .. Len(FolderSecrets) :
        /\ Whitelisted(FolderSecrets[i])
        /\ FolderSecrets[i].last_modified_datetime # FolderSecrets[i].secret_updated_datetime
        /\ FolderSecrets[i].secret_updated_datetime < inp.cutoff_date
        /\ FolderSecrets[i].last_modified_datetime > inp.cutoff_date
        /\ FolderSecrets[i].type = "Password"
        /\ FolderSecrets[i].password # ""
        /\ out.number_of_warnings = 1
        /\ out.in_warning[j]

RECURSIVE ModifiedAfter(_, _, _)
ModifiedAfter(secrets, cutoff_date, i) ==
    IF i > Len(secrets) THEN 0
    ELSE (IF secrets[i].last_modified_datetime > cutoff_date THEN 1 ELSE 0)
             + ModifiedAfter(secrets, cutoff_date, i + 1)

RECURSIVE ModifiedAt(_, _, _)
ModifiedAt(secrets, cutoff_date, i) ==
    IF i > Len(secrets) THEN 0
    ELSE (IF secrets[i].last_modified_datetime = cutoff_date THEN 1 ELSE 0)
             + ModifiedAt(secrets, cutoff_date, i + 1)

\* C5: number_of_updated_secrets is the number of secrets modified strictly after
\* the cutoff, whatever their password-change time stamps; secrets modified at the
\* cutoff are left out, and number_of_secrets_to_update is the rest, never negative.
UpdatedCountsModifiedAfterCutoff ==
    /\ out.number_of_updated_secrets = ModifiedAfter(FolderSecrets, inp.cutoff_date, 1)
    /\ out.number_of_updated_secrets + ModifiedAt(FolderSecrets, inp.cutoff_date, 1)
           <= out.number_of_secrets
    /\ out.number_of_secrets = Len(FolderSecrets)
    /\ out.number_of_secrets_to_update
           = out.number_of_secrets - out.number_of_updated_secrets
    /\ out.number_of_secrets_to_update >= 0

\* A folder with a secret modified at the cutoff and one modified after it whose
\* password changed after the cutoff too.
UpdatedNextToModifiedAtCutoff ==
    /\ out.number_of_updated_secrets = 1
    /\ out.number_of_secrets_to_update = 1
    /\ \E i, j \in 1 .. Len(FolderSecrets) :
          /\ FolderSecrets[i].last_modified_datetime = inp.cutoff_date
          /\ FolderSecrets[j].last_modified_datetime > inp.cutoff_date
          /\ FolderSecrets[j].secret_updated_datetime > inp.cutoff_date
          /\ FolderSecrets[i].secret_updated_datetime < inp.cutoff_date

\* C19: every secret in warnings was modified after the cutoff, so that
\* number_of_warnings <= number_of_updated_secrets <= number_of_secrets, and
\* every exported row whose warning field is true has the status NOT_OK, its
\* secret's password unchanged since before the cutoff.
WarningsAreUpdatedAndNotOk ==
    /\ \A k \in 1 .. Len(out.warnings) :
           out.warnings[k].secret.last_modified_datetime > inp.cutoff_date
    /\ out.number_of_warnings <= out.number_of_updated_secrets
    /\ out.number_of_updated_secrets <= out.number_of_secrets
    /\ \A i \in 1 .. Len(FolderSecrets) :
           out.rows[i + 1][10] = "True" =>
               /\ out.rows[i + 1][9] = "NOT_OK"
               /\ FolderSecrets[i].secret_updated_datetime < inp.cutoff_date
               /\ FolderSecrets[i].last_modified_datetime > inp.cutoff_date

\* A folder with a secret in warning, exported as such, and one updated secret
\* that is not in warning.
WarningNextToUpdated ==
    /\ out.number_of_warnings = 1
    /\ out.number_of_updated_secrets = 2
    /\ out.rows[2][10] = "True"
    /\ out.rows[3][10] = "False"
    /\ out.rows[3][9] = "OK"

(***************************************************************************)
(* Properties of the run of main, checked under Spec.                      *)
(***************************************************************************)
\* The report was printed, or the export was written: the run succeeded.
RunSucceeded ==
    /\ pc = "exited"
    /\ \/ stdout.ok /\ "create_report" \in called
       \/ csvFile.closed /\ "export_secret_state" \in called

\* C6: a successful run of either subcommand ends with exit status 0.
SuccessExitsWithZero == RunSucceeded => exitCode = 0

\* C7: when export is selected, get_folder_metrics and create_report are never
\* invoked, the process ends in the step that writes and closes the file, and the
\* SystemExit of export is raised only with the file written and closed.
ExportIsTerminal ==
    /\ (args.parsed /\ args.subcommand = "export") =>
           called \cap {"get_folder_metrics", "create_report"} = {}
    /\ csvFile # NoFile =>
           /\ pc = "exited"
           /\ csvFile.closed
           /\ exitMsg = "Exported secret data to"
    /\ exitMsg = "Exported secret data to" =>
           /\ csvFile.closed
           /\ csvFile.name = args.filename
           /\ Len(csvFile.rows) >= 1
           /\ csvFile.rows[1] = CsvHeaders

\* An export that wrote a secret's row and ended the run.
ExportWrittenAndExited ==
    /\ pc = "exited"
    /\ args.subcommand = "export"
    /\ "export_secret_state" \in called
    /\ csvFile.closed
    /\ Len(csvFile.rows) = 2

\* The positions of the login loop of authenticate_lastpass.
LoopPositions == {"auth_login", "auth_handle"}

\* The handler of a failed attempt asks the credential of that failure again, and
\* only that one; the other two go unchanged into the next attempt.
ReplacesFailedCredential(error, field, variable_name) ==
    (pc = "auth_handle" /\ authError = error) =>
        /\ prompts'.count = prompts.count + 1
        /\ prompts'.last = variable_name
        /\ \A other \in {"username", "password", "mfa"} \ {field} :
              creds'[other] = creds[other]
        /\ \/ /\ pc' = "auth_login"
              /\ creds'[field] \notin {None, ""}
           \/ /\ pc' = "exited"
              /\ exitMsg' = CancelMessage(variable_name)
              /\ creds' = creds

ReplacesExactlyFailedCredential ==
    /\ ReplacesFailedCredential("UnknownUsername", "username", "username")
    /\ ReplacesFailedCredential("InvalidPassword", "password", "password")
    /\ ReplacesFailedCredential("InvalidMfa", "mfa", "MFA")
    /\ ReplacesFailedCredential("MfaRequired", "mfa", "MFA")
    /\ (pc = "auth_login" /\ pc' = "auth_handle") => creds' = creds

LoopEndsWithLogin == pc = "auth_login" /\ pc' = "get_secrets"

LoopEndsWithCancel ==
    /\ pc = "auth_handle"
    /\ pc' = "exited"
    /\ \E variable_name \in {"username", "password", "MFA"} :
          exitMsg' = CancelMessage(variable_name)

LoopEndsWithFatal ==
    /\ pc = "auth_handle"
    /\ authError \notin {"UnknownUsername", "InvalidPassword", "InvalidMfa", "MfaRequired"}
    /\ pc' = "exited"
    /\ exitMsg' = "Unable to authenticate to backend."

\* C8 (as stated): the failed credential, and only it, is asked again and replaced;
\* the loop ends only with a successful login or with the user's cancel.
LoopEndsOnlyWithLoginOrCancel ==
    [][/\ ReplacesExactlyFailedCredential
       /\ (pc \in LoopPositions /\ pc' \notin LoopPositions) =>
              (LoopEndsWithLogin \/ LoopEndsWithCancel)]_vars

\* C8 (amended): the failed credential, and only it, is asked again and replaced;
\* the loop ends only with a successful login, with the user's cancel, or with the
\* fatal exit on an exception of another kind.
LoopEndsOnlyWithLoginCancelOrFatal ==
    [][/\ ReplacesExactlyFailedCredential
       /\ (pc \in LoopPositions /\ pc' \notin LoopPositions) =>
              (LoopEndsWithLogin \/ LoopEndsWithCancel \/ LoopEndsWithFatal)]_vars

\* The attempt after a wrong password: the password asked again and replaced, the
\* username and the MFA as they were given.
PasswordReplacedForNextAttempt ==
    /\ pc = "auth_login"
    /\ attempts = 1
    /\ authError = "InvalidPassword"
    /\ prompts = [count |-> 1, last |-> "password"]
    /\ creds = [username |-> "a", password |-> "b", mfa |-> "a"]

\* C9: an exception of another kind than UnknownUsername, InvalidPassword,
\* InvalidMfa and MfaRequired ends the run in the handler's step with the message
\* 'Unable to authenticate to backend.', a failure status, no prompt and no
\* further login attempt; nothing happens after the exit.
OtherExceptionIsFatal ==
    [][/\ (pc = "auth_handle" /\ authError = "Exception") =>
              /\ pc' = "exited"
              /\ exitMsg' = "Unable to authenticate to backend."
              /\ exitCode' # 0
              /\ prompts' = prompts
              /\ attempts' = attempts
              /\ creds' = creds
              /\ called' = called
       /\ pc # "exited"]_vars

\* The run ended by the fatal exit after an earlier failure had been retried.
FatalAfterRetry ==
    /\ pc = "exited"
    /\ authError = "Exception"
    /\ exitMsg = "Unable to authenticate to backend."
    /\ attempts = 2
    /\ prompts.count >= 1

\* What get_arguments validates itself: the whitelist's ids, the subcommand, and
\* the report's scope and sort key.
ValidationFails ==
    /\ args.parsed
    /\ \/ \E k \in 1 .. Len(args.warning_whitelist) :
             ~is_valid_secret_id(args.warning_whitelist[k])
       \/ args.subcommand = None
       \/ /\ args.subcommand = "report"
          /\ \/ args.report_on \notin {"all", "personal", "shared"}
             \/ args.sort_on \notin {"name", "percentage"}

VaultContact == {"authenticate_lastpass", "Lastpass", "get_secrets",
                 "export_secret_state", "get_folder_metrics"}

\* C10: when argument validation fails the run has ended with a failure status and
\* without any vault contact: authenticate_lastpass and the Lastpass client were
\* never invoked.
ValidationFailureBeforeVaultContact ==
    ValidationFails =>
        /\ pc = "exited"
        /\ exitCode = 2
        /\ called \cap VaultContact = {}
        /\ prompts = NoPrompts
        /\ attempts = 0

\* A run that ended on a whitelist id that is not a number.
ExitedOnInvalidWhitelistId ==
    /\ pc = "exited"
    /\ exitCode = 2
    /\ exitMsg = "not valid ids"
    /\ args.subcommand = "report"
    /\ args.warning_whitelist = << <<"a", "b", "c">> >>

\* C12: no partial output: create_report prints the tables and the summary line, or
\* nothing at all; export writes the header and the rows into a closed file, or no
\* file.
NoPartialOutput ==
    /\ "create_report" \in called =>
           \/ stdout.ok /\ stdout.summary.ok /\ Len(stdout.tables) >= 1
           \/ stdout.tables = <<>>
    /\ "export_secret_state" \in called =>
           \/ csvFile = NoFile
           \/ csvFile.closed /\ Len(csvFile.rows) >= 1 /\ csvFile.rows[1] = CsvHeaders

(***************************************************************************)
(* Properties of the exported file, checked under SpecExport.              *)
(***************************************************************************)
\* The number of secrets in the folders before folder j.
RECURSIVE SecretsBefore(_, _)
SecretsBefore(folders, j) ==
    IF j <= 1 THEN 0
    ELSE SecretsBefore(folders, j - 1) + Len(folders[j - 1].secrets)

\* The line of the file that belongs to secret i of folder j: after the header and
\* the rows of the folders and secrets before it.
RowOf(j, i) == out[1 + SecretsBefore(inp.folders, j) + i]

\* C13: the file is the header row and then one row per (folder, secret) pair of
\* the vault's own folders, in folder order then secret order; every row is as long
\* as the header and holds in each field the value the header names there (the
\* username field holds the type of a secret that has no username).
ExportHoldsOneRowPerSecret ==
    /\ out[1] = <<"full_path", "id", "name", "url", "username", "last_modified",
                  "last_touched", "last_password_modified", "status", "warning">>
    /\ Len(out) = 1 + SecretsBefore(inp.folders, Len(inp.folders) + 1)
    /\ \A j \in 1 .. Len(inp.folders) :
          \A i \in 1 .. Len(inp.folders[j].secrets) :
              LET secret == inp.folders[j].secrets[i]
                  row == RowOf(j, i)
              IN  /\ Len(row) = Len(out[1])
                  /\ row[1] = inp.folders[j].path
                  /\ row[2] = secret.id
                  /\ row[3] = secret.name
                  /\ row[4] = secret.url
                  /\ row[5] = IF secret.has_username THEN secret.username ELSE secret.type
                  /\ row[6] = ToString(secret.last_modified_datetime)
                  /\ row[7] = ToString(secret.last_touch_datetime)
                  /\ row[8] = ToString(secret.last_password_change_datetime)
                  /\ row[9] \in {"OK", "NOT_OK"}
                  /\ row[10] \in {"True", "False"}

\* A vault whose second secret is in the first folder and whose first secret is in
\* the nested folder: the rows follow the folders, not the ids.
ExportOfTwoFolders ==
    /\ Len(out) = 3
    /\ Len(inp.folders[1].secrets) = 1
    /\ Len(inp.folders[4].secrets) = 1
    /\ out[2][2] = SecretId(2)
    /\ out[3][2] = SecretId(1)
    /\ out[3][1] = <<"A", "sub">>
    /\ out[3][7] # out[3][6]
    /\ out[2][5] = "SecureNote"

\* C14: in every row the status is "NOT_OK" exactly when the time stamp written in
\* the row's last-password-change column is before the cutoff, "OK" otherwise.
StatusFollowsPasswordChangeColumn ==
    \A j \in 1 .. Len(inp.folders) :
        \A i \in 1 .. Len(inp.folders[j].secrets) :
            /\ RowOf(j, i)[8] =
                   ToString(inp.folders[j].secrets[i].last_password_change_datetime)
            /\ RowOf(j, i)[9] =
                   IF inp.folders[j].secrets[i].last_password_change_datetime < CutoffDate
                   THEN "NOT_OK" ELSE "OK"

(***************************************************************************)
(* Properties of the report, checked under SpecReport.                     *)
(***************************************************************************)
\* The order of the full paths, joined with the separator, as strings.
PathRank(path) ==
    CASE path = <<"A">> -> 1
      [] path = <<"A", "sub">> -> 2
      [] path = <<"Z">> -> 3
      [] path = <<"\\">> -> 4
      [] path = <<"p">> -> 5

\* Where the folder of a row stands in the list given to create_report.
InputPosition(row) ==
    CHOOSE k \in 1 .. Len(inp.folder_metrics) : inp.folder_metrics[k].folder.path = row.name

RowKey(row) == IF inp.sort_on = "name" THEN PathRank(row.name) ELSE row.percentage_done

RECURSIVE RowsTotal(_, _, _, _)
RowsTotal(tables, t, i, field) ==
    IF t > Len(tables) THEN 0
    ELSE IF i > Len(tables[t].rows) THEN RowsTotal(tables, t + 1, 1, field)
    ELSE (CASE field = "folders" -> 1
            [] field = "total" -> tables[t].rows[i].total
            [] field = "updated" -> tables[t].rows[i].updated)
             + RowsTotal(tables, t, i + 1, field)

Rendered(fm) ==
    \E t \in 1 .. Len(out.tables) :
        \E i \in 1 .. Len(out.tables[t].rows) : out.tables[t].rows[i].name = fm.folder.path

\* C18: for every scope the printed summary line counts exactly the folders that
\* are rows of the printed tables, each once: their number, their secrets and
\* their updated secrets.
SummaryCountsRenderedFolders ==
    (pc = "reported" /\ out.ok) =>
        /\ out.summary.folders = RowsTotal(out.tables, 1, 1, "folders")
        /\ out.summary.total_secrets = RowsTotal(out.tables, 1, 1, "total")
        /\ out.summary.total_updated_secrets = RowsTotal(out.tables, 1, 1, "updated")
        /\ \A k \in 1 .. Len(inp.folder_metrics) :
               Rendered(inp.folder_metrics[k]) <=>
                   \E m \in 1 .. Len(out.summarized) :
                       out.summarized[m] = inp.folder_metrics[k]
        /\ Len(out.summarized) = RowsTotal(out.tables, 1, 1, "folders")

\* A report of the shared folders alone, given a personal folder with secrets too.
SharedReportLeavesPersonalOut ==
    /\ pc = "reported"
    /\ out.ok
    /\ inp.report_on = "shared"
    /\ Len(inp.folder_metrics) = 2
    /\ \E k \in 1 .. 2 : /\ inp.folder_metrics[k].folder.is_personal
                         /\ Len(inp.folder_metrics[k].folder.secrets) = 2
    /\ out.summary.folders = 1
    /\ out.summary.total_secrets = 1

====
